---- MODULE Spec2Model ----
(***************************************************************************)
(* Model of arcsecond/uploader/uploader.py: DataFileUploader.              *)
(*                                                                         *)
(* One DataFileUploader drives one file through dataset preparation,       *)
(* upload and metadata tagging.  Every private method is split at its      *)
(* remote request: the step that builds and issues the request, and the    *)
(* step that receives the (data, error) pair.  The try/except blocks of    *)
(* upload_file are the transitions between these steps.                    *)
(*                                                                         *)
(* Optional Python values (is_raw, custom_tags) are modelled as sequences  *)
(* of length 0 (None) or 1 (the value).  Optional identifiers are the      *)
(* string "None" or the identifier; "" is the empty (falsy) string.        *)
(***************************************************************************)
EXTENDS Integers, Sequences, FiniteSets, TLC

VARIABLES uploader, context, progress

vars == <<uploader, context, progress>>

-----------------------------------------------------------------------------
(* Bounds *)

\* number of upload_file calls made on one uploader
MaxCalls == 2
\* largest monitor.bytes_read fed to the progress callback
MaxBytesRead == 9
\* largest file size fed to the progress callback
MaxFileSize == 6

(* Program constants *)

\* time.sleep(1)
BackoffSeconds == 1
\* bar_length = 40
bar_length == 40

Uploaders == {1, 2}

None == <<>>
Some(x) == <<x>>

-----------------------------------------------------------------------------
(* Status triples, constants.py Status / Substatus as used by uploader.py *)

StatusNew == <<"NEW", "PENDING", "None">>
StatusPreparing == <<"PREPARING", "CHECKING", "None">>
StatusUploading == <<"UPLOADING", "UPLOADING", "None">>
StatusFinishing == <<"FINISHING", "TAGGING", "None">>
\* mutant of StatusOk: only the Status is set, the Substatus is left
StatusOkKeepsSubstatus == <<"OK", "TAGGING", "None">>
StatusOk == <<"OK", "DONE", "None">>
StatusSkipped == <<"SKIPPED", "ALREADY_SYNCED", "None">>
\* mutant of StatusError: the status of the running phase is left in place
StatusErrorNotSet == <<"UPLOADING", "UPLOADING", "None">>
StatusError == <<"ERROR", "ERROR", "None">>

-----------------------------------------------------------------------------
(* The remote service and the shared context: inputs of the uploader *)

\* identifiers the server issues for a dataset created by datasets.create
ServerUUIDs == {"ds-2", "ds-3"}

\* primary key of the data file record returned by datafiles.create
ServerPK == "df-1"

\* An API error: HTTP status and message; the message is the sequence of its
\* phrases, so that "in str(error)" is containment of a phrase.
DuplicateError == [status |-> 400, msg |-> <<"File x.fits", "already exists in dataset", "ds">>]
CaseError == [status |-> 400, msg |-> <<"File x.fits", "Already Exists In Dataset", "ds">>]
ServerError == [status |-> 500, msg |-> <<"Internal Server Error">>]

APIErrors == {DuplicateError, CaseError, ServerError}

\* custom tag lists a caller may pass to upload_file
\* a tag is the sequence of its "|"-separated fields
GoodTags == << <<"project:x">> >>
BadTags == << <<"">> >>
CustomTagArgs == {None, Some(GoodTags), Some(BadTags)}
IsRawArgs == {None, Some(TRUE), Some(FALSE)}

Contexts ==
    { c \in [ is_validated : BOOLEAN,
              dataset_uuid : {"None", "ds-1"},
              dataset_name : {"None", "", "M31-survey"},
              telescope_uuid : {"None", "tel-1"},
              should_update_dataset_with_telescope : BOOLEAN,
              custom_tags : {None, Some(<< <<"ctx:tag">> >>)},
              is_raw_data : BOOLEAN ] :
        c.should_update_dataset_with_telescope => c.telescope_uuid # "None" }

\* no request in flight
NoRequest == [kind |-> "None", uuid |-> "None", name |-> "None", telescope |-> "None"]

\* Python truthiness of an optional string
Truthy(x) == x \notin {"None", ""}

\* context._validate_custom_tags(custom_tags): TRUE when the list is accepted
ValidateCustomTags(tags) == \A i \in DOMAIN tags : tags[i] # <<"">>

\* context.update_dataset(data)
update_dataset(ctx, data) == [ctx EXCEPT !.dataset_uuid = data.uuid]

-----------------------------------------------------------------------------
(* Helpers on the per-call event log *)

Count(s, e) == Cardinality({i \in DOMAIN s : s[i] = e})

Has(s, e) == \E i \in DOMAIN s : s[i] = e

\* every occurrence of a is before every occurrence of b
AllBefore(s, a, b) ==
    \A j \in DOMAIN s : s[j] = b => \A i \in j..Len(s) : s[i] # a

\* the log restricted to the events of set E
RECURSIVE Restrict(_, _)
Restrict(s, E) ==
    IF s = <<>> THEN <<>>
    ELSE IF Head(s) \in E THEN <<Head(s)>> \o Restrict(Tail(s), E)
    ELSE Restrict(Tail(s), E)

Requests == {"datasets.read", "datasets.update", "datasets.create",
             "datafiles.create", "datafiles.update"}

DatasetRequests == {"datasets.read", "datasets.update", "datasets.create"}

-----------------------------------------------------------------------------
(* DataFileUploader.__init__ *)

NewUploader ==
    [ pc |-> "idle",
      attempt |-> 1,
      status |-> StatusNew,
      datafile |-> "None",
      is_raw |-> None,
      custom_tags |-> None,
      calls |-> 0,
      raised |-> "None",
      handles |-> 0,
      slept |-> 0,
      request |-> NoRequest,
      upload_error |-> None,
      start_context |-> None,
      created |-> "None",
      body |-> None,
      payload |-> None,
      log |-> <<>> ]

\* the progress callback has not run: monitor.bytes_read, the file size, and
\* the outcome of percent_printer (fraction = num / den)
NoProgress ==
    [ bytes_read |-> 0, file_size |-> 1, done |-> FALSE, recorded |-> -1,
      error |-> "None", num |-> 0, den |-> 1, hashes |-> 0 ]

Init ==
    /\ context \in Contexts
    /\ uploader = [u \in Uploaders |-> NewUploader]
    /\ progress = NoProgress

-----------------------------------------------------------------------------
(* Pure parts of the methods *)

\* mutant of DatasetRequestKind: the name is looked at before the UUID
DatasetRequestKindNameFirst(ctx) ==
    IF Truthy(ctx.dataset_name)
    THEN "datasets.create"
    ELSE IF Truthy(ctx.dataset_uuid)
         THEN IF ctx.should_update_dataset_with_telescope
              THEN "datasets.update"
              ELSE "datasets.read"
         ELSE "none"

\* mutant of DatasetRequestKind: a context without a name still creates
DatasetRequestKindNoCheck(ctx) ==
    IF Truthy(ctx.dataset_uuid)
    THEN IF ctx.should_update_dataset_with_telescope
         THEN "datasets.update"
         ELSE "datasets.read"
    ELSE "datasets.create"

\* _prepare_dataset: which dataset request the context selects
DatasetRequestKind(ctx) ==
    IF Truthy(ctx.dataset_uuid)
    THEN IF ctx.should_update_dataset_with_telescope
         THEN "datasets.update"
         ELSE "datasets.read"
    ELSE IF Truthy(ctx.dataset_name)
         THEN "datasets.create"
         ELSE "none"

\* _prepare_dataset: the request sent, with its arguments
DatasetRequest(ctx) ==
    CASE DatasetRequestKind(ctx) = "datasets.update" ->
           [kind |-> "datasets.update", uuid |-> ctx.dataset_uuid,
            name |-> "None", telescope |-> ctx.telescope_uuid]
      [] DatasetRequestKind(ctx) = "datasets.read" ->
           [kind |-> "datasets.read", uuid |-> ctx.dataset_uuid,
            name |-> "None", telescope |-> "None"]
      [] OTHER ->
           [kind |-> "datasets.create", uuid |-> "None",
            name |-> ctx.dataset_name,
            telescope |-> IF ctx.should_update_dataset_with_telescope
                          THEN ctx.telescope_uuid ELSE "None"]

\* mutant of GetUploadData: the dataset field is the name, not the UUID
GetUploadDataByName(ctx) == [dataset |-> ctx.dataset_name, file |-> "x.fits"]

\* __get_upload_data: the fields of the MultipartEncoder
GetUploadData(ctx) == [dataset |-> ctx.dataset_uuid, file |-> "x.fits"]

\* mutant of IsDuplicate: the match is on the HTTP status 409
IsDuplicateByStatus(error) == error.status = 409

\* _perform_upload: 'already exists in dataset' in str(error)
IsDuplicate(error) == Has(error.msg, "already exists in dataset")

\* mutant of Tags: the context's custom tags are appended as well as the
\* argument's, and before the telescope tag
TagsCustomFirst(ctx, custom_tags) ==
    << <<"arcsecond", "root", "/data">>,
       <<"arcsecond", "origin", "host-1">>,
       <<"arcsecond", "uploader", "user-1">>,
       <<"arcsecond", "version", "1.0">> >>
    \o (IF custom_tags # None THEN custom_tags[1] ELSE <<>>)
    \o (IF ctx.custom_tags # None THEN ctx.custom_tags[1] ELSE <<>>)
    \o (IF Truthy(ctx.telescope_uuid)
        THEN << <<"arcsecond", "telescope", ctx.telescope_uuid>> >>
        ELSE <<>>)

\* _update_file_metadata: the tag list
Tags(ctx, custom_tags) ==
    << <<"arcsecond", "root", "/data">>,
       <<"arcsecond", "origin", "host-1">>,
       <<"arcsecond", "uploader", "user-1">>,
       <<"arcsecond", "version", "1.0">> >>
    \o (IF Truthy(ctx.telescope_uuid)
        THEN << <<"arcsecond", "telescope", ctx.telescope_uuid>> >>
        ELSE <<>>)
    \o (IF custom_tags # None THEN custom_tags[1]
        ELSE IF ctx.custom_tags # None THEN ctx.custom_tags[1]
        ELSE <<>>)

\* _update_file_metadata: the json payload of datafiles.update
Payload(ctx, is_raw, custom_tags) ==
    [ tags |-> Tags(ctx, custom_tags),
      is_raw |-> IF is_raw # None THEN is_raw[1] ELSE ctx.is_raw_data,
      fsname |-> "host-1",
      fspath |-> "/data" ]

\* mutant of TagsRejected: the validator is not called
TagsNeverChecked(custom_tags) == FALSE

\* _update_file_metadata: the validator is called on a custom_tags argument
\* that is not None, and raises when it rejects the list
TagsRejected(custom_tags) ==
    custom_tags # None /\ ~ValidateCustomTags(custom_tags[1])

\* mutant of WriteBack: the record is written only into a context that holds
\* no dataset UUID yet
WriteBackIfUnset(ctx, request, data) ==
    IF request.kind = "datasets.create" /\ ~Truthy(ctx.dataset_uuid)
    THEN update_dataset(ctx, data)
    ELSE ctx

\* mutant of WriteBack: the record is not written back
WriteBackNever(ctx, request, data) == ctx

\* _prepare_dataset: the context after a dataset request that succeeded
WriteBack(ctx, request, data) ==
    IF request.kind = "datasets.create"
    THEN update_dataset(ctx, data)
    ELSE ctx

\* mutant of ContextRefused: the validation check is dropped
ContextNeverRefused(ctx) == FALSE

\* upload_file: is the context refused
ContextRefused(ctx) == ctx.is_validated = FALSE

\* mutant of Except: the second failure is caught as well and upload_file
\* goes on with the next phase
ExceptSwallow(r, phase, kind) ==
    IF r.attempt = 1
    THEN [r EXCEPT !.pc = phase \o "_sleep"]
    ELSE [r EXCEPT !.pc = CASE phase = "prepare" -> "upload"
                            [] phase = "upload" -> "tag"
                            [] OTHER -> "returned",
                   !.attempt = 1]

\* mutant of Except: the retry is made at once, without time.sleep
ExceptNoBackoff(r, phase, kind) ==
    IF r.attempt = 1
    THEN [r EXCEPT !.pc = phase, !.attempt = 2]
    ELSE [r EXCEPT !.pc = "raised", !.raised = kind]

\* mutant of Except: a failed tagging starts again from the upload
ExceptRestart(r, phase, kind) ==
    IF r.attempt = 1
    THEN [r EXCEPT !.pc = IF phase = "tag" THEN "upload_sleep"
                          ELSE phase \o "_sleep"]
    ELSE [r EXCEPT !.pc = "raised", !.raised = kind]

\* upload_file: the except clauses.  A phase raised its retryable error kind:
\* the first attempt is caught (sleep, then try again), the second propagates.
Except(r, phase, kind) ==
    IF r.attempt = 1
    THEN [r EXCEPT !.pc = phase \o "_sleep"]
    ELSE [r EXCEPT !.pc = "raised", !.raised = kind]

\* mutant of AfterUpload: the SKIPPED status is not looked at
AfterUploadAlwaysTag(r) == [r EXCEPT !.pc = "tag", !.attempt = 1]

\* upload_file: the decision after the upload phase
AfterUpload(r) ==
    IF r.status[1] = "SKIPPED"
    THEN [r EXCEPT !.pc = "returned"]
    ELSE [r EXCEPT !.pc = "tag", !.attempt = 1]

\* the file object opened by __get_upload_data is never closed by the code;
\* it is closed only if the runtime finalises the encoder when the frame of
\* _perform_upload is released.  An exception that propagates to the caller
\* keeps that frame, and the handle, alive.
Release(r, finalised) ==
    IF finalised /\ r.pc # "raised"
    THEN [r EXCEPT !.handles = r.handles - 1]
    ELSE r

-----------------------------------------------------------------------------
(* Actions *)

\* upload_file(is_raw, custom_tags): entry and validation check, for the
\* arguments of the given sets and at most max calls on the uploader
UploadFileArgs(u, raws, tags, max) ==
    /\ uploader[u].pc \in {"idle", "returned", "raised"}
    /\ uploader[u].calls < max
    /\ \E is_raw \in raws, custom_tags \in tags :
         LET r == [uploader[u] EXCEPT
                     !.is_raw = is_raw,
                     !.custom_tags = custom_tags,
                     !.calls = @ + 1,
                     !.attempt = 1,
                     !.raised = "None",
                     !.slept = 0,
                     !.request = NoRequest,
                     !.upload_error = None,
                     !.start_context = Some(context),
                     !.created = "None",
                     !.body = None,
                     !.payload = None,
                     !.log = <<>>]
         IN uploader' = [uploader EXCEPT ![u] =
                IF ContextRefused(context)
                THEN [r EXCEPT !.pc = "raised",
                               !.raised = "InvalidatedContextError"]
                ELSE [r EXCEPT !.pc = "prepare"]]
    /\ UNCHANGED <<context, progress>>

UploadFile(u) == UploadFileArgs(u, IsRawArgs, CustomTagArgs, MaxCalls)

\* _prepare_dataset up to the dataset request
PrepareDataset(u) ==
    /\ uploader[u].pc = "prepare"
    /\ LET r == [uploader[u] EXCEPT !.status = StatusPreparing]
       IN uploader' = [uploader EXCEPT ![u] =
            IF DatasetRequestKind(context) = "none"
            THEN [r EXCEPT !.pc = "raised",
                           !.raised = "DatasetCheckError",
                           !.log = @ \o <<"prepare", "check_error">>]
            ELSE [r EXCEPT !.pc = "prepare_wait",
                           !.request = DatasetRequest(context),
                           !.log = @ \o <<"prepare", DatasetRequestKind(context)>>]]
    /\ UNCHANGED <<context, progress>>

\* _prepare_dataset from the (data, error) answer on
PrepareDatasetReturn(u) ==
    /\ uploader[u].pc = "prepare_wait"
    /\ \/ \E error \in APIErrors :
            /\ uploader' = [uploader EXCEPT ![u] =
                 Except([uploader[u] EXCEPT !.log = @ \o <<"prepare.error">>],
                        "prepare", "DatasetPreparationError")]
            /\ UNCHANGED context
       \/ \E uuid \in ServerUUIDs :
            LET data == [uuid |-> IF uploader[u].request.kind = "datasets.create"
                                  THEN uuid ELSE uploader[u].request.uuid]
            IN /\ uploader' = [uploader EXCEPT ![u] =
                     [uploader[u] EXCEPT
                        !.pc = "upload",
                        !.attempt = 1,
                        !.created = IF uploader[u].request.kind = "datasets.create"
                                    THEN data.uuid ELSE @,
                        !.log = @ \o <<"prepare.done">>]]
               /\ context' = WriteBack(context, uploader[u].request, data)
    /\ UNCHANGED progress

\* time.sleep(1) in an except clause of upload_file, then the second attempt
Sleep(u) ==
    /\ uploader[u].pc \in {"prepare_sleep", "upload_sleep", "tag_sleep"}
    /\ uploader' = [uploader EXCEPT ![u] =
         [uploader[u] EXCEPT
            !.pc = CASE uploader[u].pc = "prepare_sleep" -> "prepare"
                     [] uploader[u].pc = "upload_sleep" -> "upload"
                     [] OTHER -> "tag",
            !.attempt = 2,
            !.slept = @ + BackoffSeconds,
            !.log = @ \o <<"sleep">>]]
    /\ UNCHANGED <<context, progress>>

\* _perform_upload up to the datafiles.create request
PerformUpload(u) ==
    /\ uploader[u].pc = "upload"
    /\ uploader' = [uploader EXCEPT ![u] =
         [uploader[u] EXCEPT
            !.pc = "upload_wait",
            !.status = StatusUploading,
            !.handles = @ + 1,
            !.body = Some(GetUploadData(context)),
            !.request = [NoRequest EXCEPT !.kind = "datafiles.create"],
            !.log = @ \o <<"upload", "datafiles.create">>]]
    /\ UNCHANGED <<context, progress>>

\* _perform_upload from the (data, error) answer on, and the decision of
\* upload_file that follows it
PerformUploadReturn(u) ==
    /\ uploader[u].pc = "upload_wait"
    /\ \E finalised \in BOOLEAN :
         \/ uploader' = [uploader EXCEPT ![u] =
              Release(AfterUpload([uploader[u] EXCEPT
                        !.datafile = ServerPK,
                        !.upload_error = None,
                        !.log = @ \o <<"upload.done">>]), finalised)]
         \/ \E error \in APIErrors :
              uploader' = [uploader EXCEPT ![u] =
                Release(
                  IF IsDuplicate(error)
                  THEN AfterUpload([uploader[u] EXCEPT
                         !.datafile = "None",
                         !.upload_error = Some(error),
                         !.status = StatusSkipped,
                         !.log = @ \o <<"upload.duplicate">>])
                  ELSE Except([uploader[u] EXCEPT
                         !.datafile = "None",
                         !.upload_error = Some(error),
                         !.status = StatusError,
                         !.log = @ \o <<"upload.error">>],
                         "upload", "TransferError"),
                  finalised)]
    /\ UNCHANGED <<context, progress>>

\* _update_file_metadata up to the datafiles.update request
UpdateFileMetadata(u) ==
    /\ uploader[u].pc = "tag"
    /\ LET r == [uploader[u] EXCEPT !.status = StatusFinishing]
       IN uploader' = [uploader EXCEPT ![u] =
            IF TagsRejected(r.custom_tags)
            THEN [r EXCEPT !.pc = "raised",
                           !.raised = "CustomTagsError",
                           !.log = @ \o <<"tag", "tags.rejected">>]
            ELSE [r EXCEPT !.pc = "tag_wait",
                           !.payload = @ \o <<Payload(context, r.is_raw, r.custom_tags)>>,
                           !.request = [NoRequest EXCEPT !.kind = "datafiles.update",
                                                        !.uuid = r.datafile],
                           !.log = @ \o <<"tag", "datafiles.update">>]]
    /\ UNCHANGED <<context, progress>>

\* _update_file_metadata from the (data, error) answer on
UpdateFileMetadataReturn(u) ==
    /\ uploader[u].pc = "tag_wait"
    /\ \/ \E error \in APIErrors :
            uploader' = [uploader EXCEPT ![u] =
              Except([uploader[u] EXCEPT
                        !.status = StatusError,
                        !.log = @ \o <<"tag.error">>],
                     "tag", "MetadataError")]
       \/ uploader' = [uploader EXCEPT ![u] =
            [uploader[u] EXCEPT
               !.pc = "returned",
               !.status = StatusOk,
               !.log = @ \o <<"tag.done">>]]
    /\ UNCHANGED <<context, progress>>

-----------------------------------------------------------------------------
(* The progress callback of __get_upload_data *)

\* Python round(n / d) for n >= 0, d > 0: to nearest, ties to even
RoundHalfEven(n, d) ==
    LET q == n \div d
        m == n % d
    IN IF 2 * m < d THEN q
       ELSE IF 2 * m > d THEN q + 1
       ELSE IF q % 2 = 0 THEN q ELSE q + 1

\* percent_printer(monitor): float(bytes_read) / float(file_size) raises
\* ZeroDivisionError when the file is empty, before min() is applied
percent_printer(bytes_read, file_size) ==
    IF file_size = 0
    THEN [ error |-> "ZeroDivisionError", num |-> 0, den |-> 1, hashes |-> 0 ]
    ELSE LET num == IF bytes_read < file_size THEN bytes_read ELSE file_size
         IN [ error |-> "None", num |-> num, den |-> file_size,
              hashes |-> RoundHalfEven(num * bar_length, file_size) ]

\* one call of the monitor's callback
PercentPrinter ==
    /\ ~progress.done
    /\ LET out == percent_printer(progress.bytes_read, progress.file_size)
       IN progress' = [progress EXCEPT
                         !.done = TRUE,
                         !.recorded = progress.bytes_read,
                         !.error = out.error,
                         !.num = out.num,
                         !.den = out.den,
                         !.hashes = out.hashes]
    /\ UNCHANGED <<uploader, context>>

InitProgress ==
    /\ context = CHOOSE c \in Contexts : TRUE
    /\ uploader = [u \in Uploaders |-> NewUploader]
    /\ \E b \in 0..MaxBytesRead, f \in 0..MaxFileSize :
         progress = [NoProgress EXCEPT !.bytes_read = b, !.file_size = f]

NextProgress == PercentPrinter

SpecProgress == InitProgress /\ [][NextProgress]_vars

Next ==
    \/ UploadFile(1)
    \/ PrepareDataset(1)
    \/ PrepareDatasetReturn(1)
    \/ Sleep(1)
    \/ PerformUpload(1)
    \/ PerformUploadReturn(1)
    \/ UpdateFileMetadata(1)
    \/ UpdateFileMetadataReturn(1)

Spec == Init /\ [][Next]_vars

-----------------------------------------------------------------------------
(* Properties *)

Terminated(r) == r.pc \in {"returned", "raised"}

\* the requests of the current call, in the order issued
RequestSeq(r) == Restrict(r.log, Requests)

IsPrefix(s, t) == Len(s) <= Len(t) /\ SubSeq(t, 1, Len(s)) = s

Last(s) == s[Len(s)]

\* C1: a phase that fails on its first attempt and again on its retry makes
\* upload_file raise that phase's error kind, and no request of a later phase
\* is issued.
C1_DoubleFailureRaises ==
    \A u \in Uploaders :
      LET r == uploader[u] IN
        /\ Count(r.log, "prepare.error") = 2 =>
             /\ r.pc = "raised"
             /\ r.raised = "DatasetPreparationError"
             /\ Last(r.log) = "prepare.error"
             /\ ~Has(r.log, "datafiles.create")
             /\ ~Has(r.log, "datafiles.update")
        /\ Count(r.log, "upload.error") = 2 =>
             /\ r.pc = "raised"
             /\ r.raised = "TransferError"
             /\ Last(r.log) = "upload.error"
             /\ ~Has(r.log, "datafiles.update")
        /\ Count(r.log, "tag.error") = 2 =>
             /\ r.pc = "raised"
             /\ r.raised = "MetadataError"
             /\ Last(r.log) = "tag.error"

C1_Witness ==
    /\ uploader[1].raised = "TransferError"
    /\ Count(uploader[1].log, "upload.error") = 2

\* C2: an upload attempt answered with an error whose message contains
\* "already exists in dataset" makes upload_file return
\* (SKIPPED, ALREADY_SYNCED, None) without raising and without invoking the
\* metadata tagger.
C2_DuplicateIsSkipped ==
    \A u \in Uploaders :
      LET r == uploader[u] IN
        (r.upload_error # None
           /\ Has(r.upload_error[1].msg, "already exists in dataset")) =>
          /\ r.pc = "returned"
          /\ r.raised = "None"
          /\ r.status = StatusSkipped
          /\ Last(r.log) = "upload.duplicate"
          /\ ~Has(r.log, "tag")
          /\ ~Has(r.log, "datafiles.update")

C2_Witness ==
    /\ uploader[1].upload_error = Some(DuplicateError)
    /\ uploader[1].attempt = 2
    /\ uploader[1].pc = "returned"

\* C3: with a context whose is_validated is false upload_file raises
\* InvalidatedContextError at once: no remote call, status still
\* (NEW, PENDING, None), context unchanged.
C3_InvalidatedContext ==
    \A u \in Uploaders :
      LET r == uploader[u] IN
        (r.calls > 0 /\ r.start_context[1].is_validated = FALSE) =>
          /\ r.pc = "raised"
          /\ r.raised = "InvalidatedContextError"
          /\ r.log = <<>>
          /\ r.request = NoRequest
          /\ r.status = StatusNew
          /\ r.handles = 0
          /\ context = r.start_context[1]

C3_Witness ==
    /\ uploader[1].raised = "InvalidatedContextError"
    /\ uploader[1].calls = 2

\* C4: a validated context with neither dataset UUID nor dataset name makes
\* upload_file raise DatasetCheckError after one resolver invocation: no
\* retry, no backoff wait, no request, no upload phase, no tagging phase.
C4_DatasetCheckNotRetried ==
    \A u \in Uploaders :
      LET r == uploader[u] IN
        (r.calls > 0
           /\ r.start_context[1].is_validated
           /\ ~Truthy(r.start_context[1].dataset_uuid)
           /\ ~Truthy(r.start_context[1].dataset_name)) =>
          \/ r.pc = "prepare" /\ r.log = <<>>
          \/ /\ r.pc = "raised"
             /\ r.raised = "DatasetCheckError"
             /\ r.log = <<"prepare", "check_error">>
             /\ r.status = StatusPreparing

C4_Witness ==
    /\ uploader[1].raised = "DatasetCheckError"
    /\ uploader[1].calls = 1

\* the resolver failed once and then succeeded in the current call
PreparedOnRetry(r) ==
    Count(r.log, "prepare.error") = 1 /\ Has(r.log, "prepare.done")

\* no phase after the dataset preparation failed twice
LaterPhasesNotFailedTwice(r) ==
    Count(r.log, "upload.error") < 2 /\ Count(r.log, "tag.error") < 2

\* the resolver part of the log: two resolver calls, one dataset request
\* each, the backoff wait between them
ResolverRetried(r) ==
    /\ Len(r.log) >= 7
    /\ r.log[1] = "prepare"
    /\ r.log[2] \in DatasetRequests
    /\ r.log[3] = "prepare.error"
    /\ r.log[4] = "sleep"
    /\ r.log[5] = "prepare"
    /\ r.log[6] \in DatasetRequests
    /\ r.log[7] = "prepare.done"
    /\ Count(r.log, "prepare") = 2
    /\ r.slept >= BackoffSeconds

\* C5 as stated: after a resolver failure followed by a resolver success,
\* upload_file returns normally whenever no later phase fails twice.
C5_Original ==
    \A u \in Uploaders :
      LET r == uploader[u] IN
        (PreparedOnRetry(r) /\ Terminated(r) /\ LaterPhasesNotFailedTwice(r)) =>
          r.pc = "returned"

\* C5 (amended): after a resolver failure followed by a resolver success,
\* exactly two resolver calls were made with the backoff wait between them,
\* upload_file goes on to the upload phase, and it returns normally whenever
\* no later phase fails twice and the custom-tag validator accepts the
\* custom_tags argument.
C5_RetriedPreparationSucceeds ==
    \A u \in Uploaders :
      LET r == uploader[u] IN
        PreparedOnRetry(r) =>
          /\ ResolverRetried(r)
          /\ r.pc = "upload" \/ (Len(r.log) >= 8 /\ r.log[8] = "upload")
          /\ (Terminated(r) /\ LaterPhasesNotFailedTwice(r)
                /\ ~Has(r.log, "tags.rejected")) =>
               (r.pc = "returned" /\ r.raised = "None")

C5_Witness ==
    /\ PreparedOnRetry(uploader[1])
    /\ uploader[1].pc = "returned"
    /\ uploader[1].status = StatusOk

\* the outcome of the last upload attempt of the current call
UploadOutcomes(r) ==
    Restrict(r.log, {"upload.done", "upload.duplicate", "upload.error"})

LastUploadDuplicate(r) ==
    UploadOutcomes(r) # <<>> /\ Last(UploadOutcomes(r)) = "upload.duplicate"

\* C6: when upload_file returns normally the status is (OK, DONE, None) or
\* (SKIPPED, ALREADY_SYNCED, None): OK exactly when a datafiles.update
\* succeeded in this call, SKIPPED exactly when the last upload attempt was
\* classified as a duplicate; never the (ERROR, ERROR) of a failed first
\* attempt.
C6_ReturnedStatus ==
    \A u \in Uploaders :
      LET r == uploader[u] IN
        r.pc = "returned" =>
          /\ r.status \in {StatusOk, StatusSkipped}
          /\ r.status = StatusOk <=> Has(r.log, "tag.done")
          /\ r.status = StatusSkipped <=> LastUploadDuplicate(r)
          /\ r.status # StatusError

C6_Witness ==
    /\ uploader[1].pc = "returned"
    /\ uploader[1].status = StatusOk
    /\ Has(uploader[1].log, "upload.error")
    /\ Has(uploader[1].log, "tag.error")

\* an attempt of a phase is the first of the call, or follows the backoff
\* wait that follows a caught error of the same phase
AttemptsJustified(log, call, before, error) ==
    \A i \in DOMAIN log :
      log[i] = call =>
        \/ IF before = "start" THEN i = 1 ELSE (i > 1 /\ log[i - 1] = before)
        \/ i > 2 /\ log[i - 1] = "sleep" /\ log[i - 2] = error

\* C7: every phase is attempted at most twice; a second attempt follows a
\* first attempt that raised the phase's retryable error and one backoff
\* wait; a phase that succeeded is not attempted again; a second failure is
\* not caught; at most 2 dataset requests, 2 datafiles.create and
\* 2 datafiles.update per call.
C7_AtMostOneRetry ==
    \A u \in Uploaders :
      LET r == uploader[u]
          log == r.log
      IN
        /\ Count(log, "prepare") <= 2
        /\ Count(log, "upload") <= 2
        /\ Count(log, "tag") <= 2
        /\ Len(Restrict(log, DatasetRequests)) <= 2
        /\ Count(log, "datafiles.create") <= 2
        /\ Count(log, "datafiles.update") <= 2
        /\ AttemptsJustified(log, "prepare", "start", "prepare.error")
        /\ AttemptsJustified(log, "upload", "prepare.done", "upload.error")
        /\ AttemptsJustified(log, "tag", "upload.done", "tag.error")
        /\ \A i \in DOMAIN log :
             log[i] = "sleep" =>
               /\ i > 1
               /\ log[i - 1] \in {"prepare.error", "upload.error", "tag.error"}
               /\ \A j \in 1..(i - 2) : log[j] # log[i - 1]
        /\ r.slept = BackoffSeconds * Count(log, "sleep")
        /\ AllBefore(log, "prepare", "prepare.done")
        /\ AllBefore(log, "upload", "upload.done")
        /\ AllBefore(log, "upload", "upload.duplicate")
        /\ AllBefore(log, "tag", "tag.done")
        /\ \A e \in {"prepare.error", "upload.error", "tag.error"} :
             /\ Count(log, e) <= 2
             /\ Count(log, e) = 2 => (r.pc = "raised" /\ Last(log) = e)

C7_Witness ==
    /\ uploader[1].pc = "returned"
    /\ Count(uploader[1].log, "prepare") = 2
    /\ Count(uploader[1].log, "upload") = 2
    /\ Count(uploader[1].log, "tag") = 2
    /\ Count(uploader[1].log, "sleep") = 3

\* the call started with a validated context that carries a dataset name
\* and no dataset UUID
NameOnlyCall(r) ==
    /\ r.calls > 0
    /\ r.start_context[1].is_validated
    /\ ~Truthy(r.start_context[1].dataset_uuid)
    /\ Truthy(r.start_context[1].dataset_name)

NoRemoteFailure(r) ==
    \A e \in {"prepare.error", "upload.error", "upload.duplicate", "tag.error"} :
      ~Has(r.log, e)

HappyPath == <<"datasets.create", "datafiles.create", "datafiles.update">>

\* C8 as stated: with a name-only context and no failing remote call the
\* requests are datasets.create, datafiles.create, datafiles.update and the
\* final status is (OK, DONE, None).
C8_Original ==
    \A u \in Uploaders :
      LET r == uploader[u] IN
        (NameOnlyCall(r) /\ NoRemoteFailure(r) /\ Terminated(r)) =>
          /\ RequestSeq(r) = HappyPath
          /\ r.status = StatusOk

\* C8 (amended): with a name-only validated context, no failing remote call
\* and a custom_tags argument the validator accepts, the requests are
\* datasets.create, datafiles.create, datafiles.update, one of each in that
\* order; the datafiles.create body carries the UUID returned by
\* datasets.create; the final status is (OK, DONE, None).
C8_NameOnlyHappyPath ==
    \A u \in Uploaders :
      LET r == uploader[u] IN
        (NameOnlyCall(r) /\ NoRemoteFailure(r) /\ ~Has(r.log, "tags.rejected")) =>
          /\ IsPrefix(RequestSeq(r), HappyPath)
          /\ r.body # None =>
               (r.created \in ServerUUIDs /\ r.body[1].dataset = r.created)
          /\ Terminated(r) =>
               /\ RequestSeq(r) = HappyPath
               /\ r.pc = "returned"
               /\ r.status = StatusOk

C8_Witness ==
    /\ NameOnlyCall(uploader[1])
    /\ NoRemoteFailure(uploader[1])
    /\ uploader[1].pc = "returned"
    /\ uploader[1].body = Some([dataset |-> "ds-2", file |-> "x.fits"])
    /\ uploader[1].status = StatusOk

\* C9: after upload_file terminates, no file handle opened by the uploader
\* is still open.
C9_HandlesClosed ==
    \A u \in Uploaders :
      Terminated(uploader[u]) => uploader[u].handles = 0

\* C10: for every bytes_read >= 0 and file size >= 0 the progress callback
\* raises nothing and computes fraction = min(bytes_read / file_size, 1.0),
\* a value in [0, 1]; the fraction is 1.0 when the file size is 0.
C10_ProgressFraction ==
    progress.done =>
      /\ progress.error = "None"
      /\ progress.den > 0
      /\ 0 <= progress.num /\ progress.num <= progress.den
      /\ IF progress.file_size = 0 \/ progress.bytes_read >= progress.file_size
         THEN progress.num = progress.den
         ELSE progress.num * progress.file_size = progress.bytes_read * progress.den

\* the custom tags the tagger appends: the call argument if it is not None,
\* otherwise the context's custom tags, otherwise none
ExpectedCustom(ctx, custom_tags) ==
    IF custom_tags # None THEN custom_tags[1]
    ELSE IF ctx.custom_tags # None THEN ctx.custom_tags[1]
    ELSE <<>>

\* root, origin, uploader, version, then the telescope tag if the context
\* has a telescope, then the custom tags
TagsInOrder(tags, ctx, custom_tags) ==
    LET n == IF Truthy(ctx.telescope_uuid) THEN 5 ELSE 4 IN
      /\ Len(tags) = n + Len(ExpectedCustom(ctx, custom_tags))
      /\ tags[1] = <<"arcsecond", "root", "/data">>
      /\ tags[2] = <<"arcsecond", "origin", "host-1">>
      /\ tags[3] = <<"arcsecond", "uploader", "user-1">>
      /\ tags[4] = <<"arcsecond", "version", "1.0">>
      /\ n = 5 => tags[5] = <<"arcsecond", "telescope", ctx.telescope_uuid>>
      /\ SubSeq(tags, n + 1, Len(tags)) = ExpectedCustom(ctx, custom_tags)

\* C11: the two tagger invocations of a metadata retry send the same
\* datafiles.update payload, and every payload's tag list is ordered root,
\* origin, uploader, version, [telescope], custom tags (the call argument if
\* it is not None, otherwise the context's).
C11_TaggerIdempotent ==
    \A u \in Uploaders :
      LET r == uploader[u] IN
        /\ Len(r.payload) = Count(r.log, "datafiles.update")
        /\ Len(r.payload) = 2 => r.payload[1] = r.payload[2]
        /\ \A i \in DOMAIN r.payload :
             TagsInOrder(r.payload[i].tags, context, r.custom_tags)

C11_Witness ==
    /\ Len(uploader[1].payload) = 2
    /\ uploader[1].custom_tags = None
    /\ context.custom_tags # None
    /\ Truthy(context.telescope_uuid)

ValidStatuses ==
    { <<"NEW", "PENDING", "None">>,
      <<"PREPARING", "CHECKING", "None">>,
      <<"UPLOADING", "UPLOADING", "None">>,
      <<"FINISHING", "TAGGING", "None">>,
      <<"OK", "DONE", "None">>,
      <<"SKIPPED", "ALREADY_SYNCED", "None">>,
      <<"ERROR", "ERROR", "None">> }

\* C12: in every reachable state the status triple is one of the seven
\* valid (Status, Substatus, None) combinations.
C12_ValidStatus ==
    \A u \in Uploaders : uploader[u].status \in ValidStatuses

C12_Witness ==
    /\ uploader[1].calls = 2
    /\ uploader[1].status = <<"OK", "DONE", "None">>
    /\ uploader[1].pc = "returned"

\* the last upload outcome logged before position i
LastUploadOutcomeBefore(log, i) ==
    LET js == {j \in 1..(i - 1) :
                 log[j] \in {"upload.done", "upload.duplicate", "upload.error"}}
    IN IF js = {} THEN "none"
       ELSE log[CHOOSE j \in js : \A k \in js : k <= j]

\* C13: within one call a datafiles.create request is issued only after a
\* resolver attempt of the call completed without error, and a
\* datafiles.update request only after a datafiles.create of the call
\* returned without error (never after a skip or a failed upload).
C13_PhasesGated ==
    \A u \in Uploaders :
      LET log == uploader[u].log IN
        \A i \in DOMAIN log :
          /\ log[i] = "datafiles.create" =>
               \E j \in 1..(i - 1) : log[j] = "prepare.done"
          /\ log[i] = "datafiles.update" =>
               LastUploadOutcomeBefore(log, i) = "upload.done"

C13_Witness ==
    /\ Has(uploader[1].log, "prepare.error")
    /\ Has(uploader[1].log, "upload.error")
    /\ Has(uploader[1].log, "datafiles.update")

\* C14: when upload_file has raised, the status is (PREPARING, CHECKING,
\* None) after a double dataset-preparation failure or a DatasetCheckError,
\* (ERROR, ERROR, None) after a double transfer failure or a double metadata
\* failure, and never OK or SKIPPED.
C14_StatusOnRaise ==
    \A u \in Uploaders :
      LET r == uploader[u] IN
        r.pc = "raised" =>
          /\ r.raised \in {"DatasetPreparationError", "DatasetCheckError"} =>
               r.status = <<"PREPARING", "CHECKING", "None">>
          /\ r.raised \in {"TransferError", "MetadataError"} =>
               r.status = <<"ERROR", "ERROR", "None">>
          /\ r.status[1] \notin {"OK", "SKIPPED"}

C14_Witness ==
    /\ uploader[1].pc = "raised"
    /\ uploader[1].raised = "MetadataError"
    /\ uploader[1].calls = 2

\* C15: within one call, once a datafiles.create request returned without
\* error no further datafiles.create is issued, also when the metadata phase
\* is retried; a second datafiles.create follows a first one that returned a
\* non-duplicate error.
C15_OneDataFilePerCall ==
    \A u \in Uploaders :
      LET log == uploader[u].log IN
        /\ Count(log, "upload.done") <= 1
        /\ AllBefore(log, "datafiles.create", "upload.done")
        /\ AllBefore(log, "datafiles.create", "upload.duplicate")
        /\ \A i \in DOMAIN log :
             (log[i] = "datafiles.create"
                /\ \E j \in 1..(i - 1) : log[j] = "datafiles.create") =>
               LastUploadOutcomeBefore(log, i) = "upload.error"

C15_Witness ==
    /\ Has(uploader[1].log, "upload.done")
    /\ Count(uploader[1].log, "datafiles.update") = 2
    /\ Count(uploader[1].log, "datafiles.create") = 1

\* the dataset request the rule of C16 prescribes for a context
PrescribedRequest(ctx) ==
    IF ctx.dataset_uuid \notin {"None", ""}
    THEN IF ctx.should_update_dataset_with_telescope
         THEN [kind |-> "datasets.update", uuid |-> ctx.dataset_uuid,
               name |-> "None", telescope |-> ctx.telescope_uuid]
         ELSE [kind |-> "datasets.read", uuid |-> ctx.dataset_uuid,
               name |-> "None", telescope |-> "None"]
    ELSE [kind |-> "datasets.create", uuid |-> "None",
          name |-> ctx.dataset_name,
          telescope |-> IF ctx.should_update_dataset_with_telescope
                        THEN ctx.telescope_uuid ELSE "None"]

\* C16: every resolver invocation issues one dataset request, chosen by the
\* context with the UUID before the name: update(uuid, telescope) when the
\* sync is requested, read(uuid) otherwise, create(name) without UUID, and
\* no request but a DatasetCheckError with neither.  No datasets.create is
\* issued while the context holds a UUID, and an error answer is raised as
\* DatasetPreparationError.
C16_ResolverRequest ==
    \A u \in Uploaders :
      LET r == uploader[u] IN
        /\ Len(Restrict(r.log, DatasetRequests)) + Count(r.log, "check_error")
             = Count(r.log, "prepare")
        /\ r.pc = "prepare_wait" =>
             /\ r.request = PrescribedRequest(context)
             /\ r.request.kind = "datasets.create" =>
                  (context.dataset_uuid \in {"None", ""}
                     /\ context.dataset_name \notin {"None", ""})
        /\ Has(r.log, "check_error") =>
             /\ context.dataset_uuid \in {"None", ""}
             /\ context.dataset_name \in {"None", ""}
             /\ r.raised = "DatasetCheckError"
        /\ (r.log # <<>> /\ Last(r.log) = "prepare.error") =>
             \/ r.pc = "prepare_sleep"
             \/ r.pc = "raised" /\ r.raised = "DatasetPreparationError"

C16_Witness ==
    /\ uploader[1].pc = "prepare_wait"
    /\ uploader[1].request.kind = "datasets.update"
    /\ context.dataset_name = "M31-survey"
    /\ uploader[1].attempt = 2

\* C17: a step changes the shared context exactly when it is the successful
\* return of a datasets.create request; the read path, the update path, a
\* failed resolver attempt, the upload and the tagging leave it unchanged.
C17_OnlyWriteBackMutates ==
    [][ (context' # context) <=>
          \E u \in Uploaders :
            /\ uploader[u].pc = "prepare_wait"
            /\ uploader[u].request.kind = "datasets.create"
            /\ uploader'[u].pc = "upload" ]_vars

C17_Witness ==
    /\ uploader[1].calls = 1
    /\ uploader[1].start_context[1].dataset_uuid = "None"
    /\ context.dataset_uuid \in ServerUUIDs
    /\ uploader[1].pc = "returned"

-----------------------------------------------------------------------------
(* Two uploaders, one for each of two files, share one context that carries
   only a dataset name; their upload_file calls run concurrently and no
   caller serializes the dataset resolution. *)

InitShared ==
    /\ context \in {c \in Contexts :
                      /\ c.is_validated
                      /\ c.dataset_uuid = "None"
                      /\ c.dataset_name = "M31-survey"
                      /\ c.custom_tags = None
                      /\ c.is_raw_data
                      /\ c.should_update_dataset_with_telescope
                           <=> c.telescope_uuid # "None"}
    /\ uploader = [u \in Uploaders |-> NewUploader]
    /\ progress = NoProgress

\* one upload_file() call per uploader, without arguments
UploadFileOnce(u) == UploadFileArgs(u, {None}, {None}, 1)

NextShared ==
    \E u \in Uploaders :
      \/ UploadFileOnce(u)
      \/ PrepareDataset(u)
      \/ PrepareDatasetReturn(u)
      \/ Sleep(u)
      \/ PerformUpload(u)
      \/ PerformUploadReturn(u)
      \/ UpdateFileMetadata(u)
      \/ UpdateFileMetadataReturn(u)

SpecShared == InitShared /\ [][NextShared]_vars

\* C18: with two concurrent calls on a name-only context, every successful
\* datasets.create leaves its own record in the context (the last writer
\* wins), and every datafiles.create body carries the dataset UUID the
\* context holds when the body is built; both calls can issue
\* datasets.create (see the witness).
C18_LastWriterWins ==
    [][ \A u \in Uploaders :
          /\ (uploader[u].pc = "prepare_wait"
                /\ uploader[u].request.kind = "datasets.create"
                /\ uploader'[u].pc = "upload") =>
               /\ uploader'[u].created \in ServerUUIDs
               /\ context'.dataset_uuid = uploader'[u].created
          /\ (uploader[u].pc = "upload" /\ uploader'[u].pc = "upload_wait") =>
               /\ context' = context
               /\ uploader'[u].body # None
               /\ uploader'[u].body[1].dataset = context.dataset_uuid ]_vars

\* both calls created a dataset for the one name; the second uploader wrote
\* its record last, and the first uploader's file went into that dataset
C18_Witness ==
    /\ Count(uploader[1].log, "datasets.create") = 1
    /\ Count(uploader[2].log, "datasets.create") = 1
    /\ uploader[1].created = "ds-2"
    /\ uploader[2].created = "ds-3"
    /\ context.dataset_uuid = "ds-3"
    /\ uploader[1].body = Some([dataset |-> "ds-3", file |-> "x.fits"])
    /\ uploader[2].body = Some([dataset |-> "ds-3", file |-> "x.fits"])
    /\ uploader[1].pc = "returned"
    /\ uploader[2].pc = "returned"

-----------------------------------------------------------------------------

\* C19: after a datafiles.create that succeeded, the call issues only
\* datafiles.update requests, at most two; when both tagging attempts fail
\* upload_file raises MetadataError, the created file is left untagged and
\* no compensating request follows.
C19_NoCompensation ==
    \A u \in Uploaders :
      LET r == uploader[u]
          log == r.log
      IN
        /\ \A i \in DOMAIN log :
             log[i] = "upload.done" =>
               /\ \A j \in (i + 1)..Len(log) :
                    log[j] \in Requests => log[j] = "datafiles.update"
               /\ Cardinality({j \in (i + 1)..Len(log) : log[j] \in Requests}) <= 2
        /\ Count(log, "tag.error") = 2 =>
             /\ r.pc = "raised"
             /\ r.raised = "MetadataError"
             /\ r.datafile = ServerPK
             /\ ~Has(log, "tag.done")
             /\ Last(log) = "tag.error"
             /\ Last(RequestSeq(r)) = "datafiles.update"

C19_Witness ==
    /\ uploader[1].raised = "MetadataError"
    /\ uploader[1].datafile = ServerPK
    /\ Count(uploader[1].log, "datafiles.update") = 2

\* C20: when the validator rejects the custom_tags argument, the metadata
\* phase fails before any datafiles.update request, with an error that is
\* not MetadataError and is not retried (one tagger run, no backoff wait),
\* and the status stays (FINISHING, TAGGING, None) although the file is
\* uploaded.
C20_RejectedTags ==
    \A u \in Uploaders :
      LET r == uploader[u] IN
        (r.custom_tags # None
           /\ ~ValidateCustomTags(r.custom_tags[1])
           /\ Has(r.log, "tag")) =>
          /\ r.pc = "raised"
          /\ r.raised \notin {"None", "MetadataError"}
          /\ Count(r.log, "tag") = 1
          /\ Last(r.log) = "tags.rejected"
          /\ r.log[Len(r.log) - 2] = "upload.done"
          /\ ~Has(r.log, "datafiles.update")
          /\ ~Has(r.log, "tag.error")
          /\ r.payload = <<>>
          /\ r.status = <<"FINISHING", "TAGGING", "None">>
          /\ r.datafile = ServerPK

C20_Witness ==
    /\ uploader[1].custom_tags = Some(BadTags)
    /\ uploader[1].raised = "CustomTagsError"
    /\ Has(uploader[1].log, "upload.done")

====
